---- MODULE Spec2Model ----
(***************************************************************************)
(* A model of the MCP demonstration client (src/client.py) and of the tool *)
(* functions of the two tool servers (src/server/weather.py and            *)
(* src/server/mathe_problem.py).                                           *)
(*                                                                         *)
(* Python values are encoded as follows.  An Optional value is a sequence  *)
(* of length 0 (None) or 1 (the value).  A str that the code inspects      *)
(* character by character (a command-line path, an input line, an          *)
(* expression) is a sequence of one-character strings; a str that is only  *)
(* passed along is a TLA+ string.  A formatted str (an f-string, a join)   *)
(* is the sequence of its fragments.  An exception is the name of its      *)
(* class.                                                                  *)
(***************************************************************************)
EXTENDS Integers, Sequences, FiniteSets, TLC

\* ------------------------------------------------------------------ bounds
\* Number of queries one run of the client processes.
MaxQueries == 2
\* Number of tool-invocation requests one model response carries.
MaxToolCalls == 2

\* ------------------------------------------------------- Python primitives
None == <<>>
Some(x) == <<x>>

NoSession == "None"
NoException == ""

Whitespace == {" ", "\t", "\n"}

\* str.strip(): drop leading and trailing whitespace.
RECURSIVE lstrip(_)
lstrip(s) ==
    IF s # <<>> /\ Head(s) \in Whitespace THEN lstrip(Tail(s)) ELSE s

RECURSIVE rstrip(_)
rstrip(s) ==
    IF s # <<>> /\ s[Len(s)] \in Whitespace
    THEN rstrip(SubSeq(s, 1, Len(s) - 1))
    ELSE s

strip(s) == rstrip(lstrip(s))

\* str.lower() on the letters the input lines are made of.
lower_char(c) ==
    CASE c = "Q" -> "q"
      [] c = "U" -> "u"
      [] c = "I" -> "i"
      [] c = "T" -> "t"
      [] c = "H" -> "h"
      [] OTHER -> c

lower(s) == [i \in 1..Len(s) |-> lower_char(s[i])]

\* str.endswith(suffix)
endswith(s, suffix) ==
    /\ Len(suffix) <= Len(s)
    /\ SubSeq(s, Len(s) - Len(suffix) + 1, Len(s)) = suffix

\* str.endswith((".py", ".js")) of connect_to_server
SuffixAccepted(path) ==
    \/ endswith(path, <<".", "p", "y">>)
    \/ endswith(path, <<".", "j", "s">>)

\* the launcher chosen for the script
command(path) == IF endswith(path, <<".", "p", "y">>) THEN "python" ELSE "node"

\* "\n".join(fragments)
RECURSIVE join(_)
join(fragments) ==
    IF Len(fragments) <= 1 THEN fragments
    ELSE <<Head(fragments), "\n">> \o join(Tail(fragments))

\* truthiness of an Optional[str]: None and "" are falsy
truthy_str(opt) == opt # None /\ opt[1] # ""

\* ------------------------------------------------------- json.loads
\* The argument strings of a tool-invocation request are sequences of JSON
\* tokens.  json.loads accepts an object "{" (key ":" value ("," key ":"
\* value)*)? "}" and a scalar; everything else is a JSONDecodeError.
\* json_members parses the members after "{" into the set of <<key, value>>
\* pairs (the last value of a repeated key wins), or {<<"error">>}.
JsonKeys == {"\"a\"", "\"b\""}
JsonScalars == {"1", "2"}

RECURSIVE json_members(_)
json_members(toks) ==
    IF Len(toks) >= 4 /\ toks[1] \in JsonKeys /\ toks[2] = ":" /\ toks[3] \in JsonScalars
    THEN IF toks[4] = "}" /\ Len(toks) = 4
         THEN {<<toks[1], toks[3]>>}
         ELSE IF toks[4] = "," /\ Len(toks) > 4
              THEN LET rest == json_members(SubSeq(toks, 5, Len(toks)))
                   IN  IF <<"error">> \in rest THEN {<<"error">>}
                       ELSE IF \E p \in rest : p[1] = toks[1]
                            THEN rest
                            ELSE rest \cup {<<toks[1], toks[3]>>}
              ELSE {<<"error">>}
    ELSE {<<"error">>}

json_loads(toks) ==
    IF toks = <<"{", "}">> THEN [ok |-> TRUE, value |-> {}]
    ELSE IF Len(toks) = 1 /\ toks[1] \in JsonScalars
         THEN [ok |-> TRUE, value |-> {<<"scalar", toks[1]>>}]
    ELSE IF Len(toks) >= 1 /\ toks[1] = "{"
         THEN LET m == json_members(Tail(toks))
              IN  IF <<"error">> \in m THEN [ok |-> FALSE, value |-> {}]
                  ELSE [ok |-> TRUE, value |-> m]
    ELSE [ok |-> FALSE, value |-> {}]

\* ------------------------------------------------------- the client's state
VARIABLES
    driver,          \* "main": the program (main); "api": a caller of MCPClient's methods
    pc,              \* the position of the single flow of control
    argv,            \* sys.argv
    session,         \* self.session
    exit_stack,      \* self.exit_stack: the contexts entered, oldest first
    acquired,        \* the scoped resources currently open (subprocess transport, session)
    cleanups,        \* number of times cleanup() has run
    pending,         \* the exception propagating out of main's try block, if any
    main_result,     \* how main ended
    loop_exit,       \* how chat_loop ended: "break" or "raise"
    nQueries,        \* number of queries handed to process_query so far
    line,            \* the last line input() returned
    forwarded,       \* number of times the last line was handed to process_query
    query,           \* process_query's argument
    messages,        \* process_query's local conversation
    available_tools, \* process_query's local tool schemas
    tool_calls,      \* message.tool_calls of the first response
    idx,             \* position of the for loop over tool_calls
    tool_results,    \* process_query's local tool_results
    final_text,      \* process_query's local final_text
    first_text,      \* message.content of the first response
    result,          \* the value process_query returned
    raised,          \* the exception process_query raised
    output,          \* what the shell printed last
    calls,           \* the external calls of the current query, in order
    req1,            \* the request of the first model call of the current query
    req2             \* the request of the second model call of the current query

clientVars ==
    <<driver, pc, argv, session, exit_stack, acquired, cleanups, pending,
      main_result, loop_exit, nQueries, line, forwarded, query, messages,
      available_tools, tool_calls, idx, tool_results, final_text, first_text,
      result, raised, output, calls, req1, req2>>

queryVars ==
    <<query, messages, available_tools, tool_calls, idx, tool_results,
      final_text, first_text, result, raised, calls, req1, req2>>

resourceVars == <<session, exit_stack, acquired, cleanups>>

\* ------------------------------------------------------- the environment
\* Script paths given on the command line.
Paths ==
    { <<"s", ".", "p", "y">>, <<"s", ".", "j", "s">>, <<"s", ".", "s", "h">>,
      <<"p", "y">> }

Argvs == { <<"client.py">> } \cup { <<"client.py", p>> : p \in Paths }

\* Lines typed at the prompt.
QuitLines ==
    { <<"q", "u", "i", "t">>, <<" ", "Q", "u", "I", "T", "\n">> }

OtherLines ==
    { <<>>, <<" ", "h", "i">>, <<"q", "u", "i", "t", "s">> }

Lines == QuitLines \cup OtherLines

\* Tool descriptors a tool server lists.
ToolDescriptor(n) == [name |-> n, description |-> "doc", inputSchema |-> "schema"]

ToolLists == { <<>>, <<ToolDescriptor("add")>> }

\* Tool-invocation requests of a model response.
ArgumentStrings == { <<"{", "\"a\"", ":", "1", "}">>, <<"{", "\"a\"", ":">> }

ToolCall(id, args) ==
    [id |-> id, function |-> [name |-> "add", arguments |-> args]]

\* The correlation ids of one response are distinct; they come in either order.
IdOrders(n) == { [i \in 1..n |-> i], [i \in 1..n |-> n + 1 - i] }

ToolCallLists ==
    UNION { { [i \in 1..n |-> ToolCall(ids[i], args[i])] :
                ids \in IdOrders(n), args \in [1..n -> ArgumentStrings] } :
            n \in 0..MaxToolCalls }

Contents == { None, Some(""), Some("text") }

FirstResponses ==
    { [content |-> c, tool_calls |-> t] : c \in Contents, t \in ToolCallLists }

FollowupContents == { None, Some("more") }

\* result.content of a successful call_tool: a list of content blocks
ResultContents == { <<"r1">>, <<"r2">> }

\* ------------------------------------------------------- process_query's values
SystemPrompt == <<"You are a helpful assistant who can use tools when needed.">>

\* variant: the conversation is kept on the client across queries
seed_messages_keep_history(q) ==
    IF messages = <<>>
    THEN << [role |-> "system", content |-> SystemPrompt],
            [role |-> "user", content |-> q] >>
    ELSE Append(messages, [role |-> "user", content |-> q])

seed_messages(q) ==
    << [role |-> "system", content |-> SystemPrompt],
       [role |-> "user", content |-> q] >>

tool_schema(tool) ==
    [type |-> "function",
     function |-> [name |-> tool.name,
                   description |-> tool.description,
                   parameters |-> tool.inputSchema]]

schemas(tools) == [i \in 1..Len(tools) |-> tool_schema(tools[i])]

first_request(msgs, tools) ==
    [model |-> "gpt-4o",
     messages |-> msgs,
     temperature |-> "0.7",
     tools |-> IF tools # <<>> THEN Some(tools) ELSE None,
     tool_choice |-> IF tools # <<>> THEN Some("auto") ELSE None]

\* variant: the follow-up call offers the tools again
followup_request_with_tools(msgs) ==
    [model |-> "gpt-4o",
     messages |-> msgs,
     temperature |-> "0.7",
     tools |-> Some(available_tools),
     tool_choice |-> Some("auto")]

followup_request(msgs) ==
    [model |-> "gpt-4o",
     messages |-> msgs,
     temperature |-> "0.7",
     tools |-> None,
     tool_choice |-> None]

assistant_message(tool_call) ==
    [role |-> "assistant", content |-> None, tool_calls |-> <<tool_call>>]

\* variant: every tool-result message carries the first request's id
tool_message_first_id(tool_call, content) ==
    [role |-> "tool", tool_call_id |-> tool_calls[1].id, content |-> content]

tool_message(tool_call, content) ==
    [role |-> "tool", tool_call_id |-> tool_call.id, content |-> content]

\* an external call: what was called, for which request, and whether it returned
Call(op, n, ok) == [op |-> op, n |-> n, ok |-> ok]

\* ------------------------------------------------------- the tool servers' state
VARIABLES
    w_pc,        \* position inside the weather tool being run
    w_tool,      \* the weather tool called
    w_http,      \* the outcomes the two outbound HTTP calls will have
    w_requests,  \* number of outbound HTTP calls made
    w_data,      \* what the first make_nws_request returned
    w_result,    \* how the weather tool ended
    m_call,      \* the math tool called last, with its arguments
    m_eval,      \* whether the expression evaluator was invoked by that call
    m_result     \* how the math tool ended

weatherVars == <<w_pc, w_tool, w_http, w_requests, w_data, w_result>>

mathVars == <<m_call, m_eval, m_result>>

vars == <<clientVars, weatherVars, mathVars>>

serverVars == <<weatherVars, mathVars>>

\* ------------------------------------------------------- connect_to_server, cleanup
ConnectFailures == {"none", "stdio_client", "ClientSession", "initialize", "list_tools"}

Range(seq) == { seq[i] : i \in 1..Len(seq) }

\* connect_to_server(path) on a client whose session and exit stack are sess
\* and stack, when the step fail_at (if any) raises.
connect_to_server(path, fail_at, sess, stack) ==
    IF ~SuffixAccepted(path)
    THEN [raised |-> "ValueError", session |-> sess, exit_stack |-> stack]
    ELSE IF fail_at = "stdio_client"
    THEN [raised |-> "OSError", session |-> sess, exit_stack |-> stack]
    ELSE IF fail_at = "ClientSession"
    THEN [raised |-> "RuntimeError", session |-> sess,
          exit_stack |-> Append(stack, "stdio_client")]
    ELSE [raised |-> IF fail_at = "none" THEN NoException ELSE "McpError",
          session |-> "ClientSession",
          exit_stack |-> stack \o <<"stdio_client", "ClientSession">>]

\* exit_stack.aclose(): every context on the stack is exited
aclose(stack, open) == open \ Range(stack)

cleanup ==
    /\ acquired' = aclose(exit_stack, acquired)
    /\ exit_stack' = <<>>
    /\ cleanups' = cleanups + 1
    /\ UNCHANGED session

\* ------------------------------------------------------- main
main_start ==
    /\ driver = "main" /\ pc = "main"
    /\ IF Len(argv) < 2
       THEN /\ pc' = "exited"
            /\ main_result' = "exit(1)"
            /\ output' = <<"Usage: python client.py <path_to_server_script>">>
       ELSE /\ pc' = "connect"
            /\ UNCHANGED <<main_result, output>>
    /\ UNCHANGED <<driver, argv, resourceVars, pending, loop_exit, nQueries,
                   line, forwarded, queryVars, serverVars>>

main_connect ==
    /\ driver = "main" /\ pc = "connect"
    /\ \E fail_at \in ConnectFailures :
         LET r == connect_to_server(argv[2], fail_at, session, exit_stack)
         IN  /\ session' = r.session
             /\ exit_stack' = r.exit_stack
             /\ acquired' = acquired \cup Range(r.exit_stack)
             /\ pending' = r.raised
             /\ IF r.raised = NoException
                THEN /\ pc' = "chat_input"
                     /\ output' = <<"MCP Client Started!">>
                ELSE /\ pc' = "finally"
                     /\ UNCHANGED output
    /\ UNCHANGED <<driver, argv, cleanups, main_result, loop_exit, nQueries,
                   line, forwarded, queryVars, serverVars>>

Quit == <<"q", "u", "i", "t">>

\* variant: the comparison without lower()
is_quit_case_sensitive(q) == q = Quit

is_quit(q) == lower(q) = Quit

chat_loop_input ==
    /\ driver = "main" /\ pc = "chat_input"
    /\ \E l \in Lines :
         LET q == strip(l)
         IN  /\ line' = l
             /\ forwarded' = 0
             /\ IF is_quit(q)
                THEN /\ pc' = "finally"
                     /\ loop_exit' = "break"
                     /\ UNCHANGED <<query, nQueries>>
                ELSE /\ nQueries < MaxQueries
                     /\ pc' = "pq_start"
                     /\ query' = q
                     /\ nQueries' = nQueries + 1
                     /\ UNCHANGED loop_exit
    /\ UNCHANGED <<driver, argv, resourceVars, pending, main_result, output,
                   messages, available_tools, tool_calls, idx, tool_results,
                   final_text, first_text, result, raised, calls, req1, req2,
                   serverVars>>

\* input() raises EOFError at end of input; the handler prints it
chat_loop_eof ==
    /\ driver = "main" /\ pc = "chat_input"
    /\ output' = <<"\nError: ", "EOFError">>
    /\ UNCHANGED <<driver, pc, argv, resourceVars, pending, main_result,
                   loop_exit, nQueries, line, forwarded, queryVars, serverVars>>

chat_loop_print ==
    /\ driver = "main" /\ pc = "pq_return"
    /\ output' = <<"\n">> \o result
    /\ pc' = "chat_input"
    /\ UNCHANGED <<driver, argv, resourceVars, pending, main_result,
                   loop_exit, nQueries, line, forwarded, queryVars, serverVars>>

\* variant: the handler leaves the loop
chat_loop_except_break ==
    /\ driver = "main" /\ pc = "pq_raise"
    /\ output' = <<"\nError: ", raised>>
    /\ pc' = "finally"
    /\ loop_exit' = "break"
    /\ UNCHANGED <<driver, argv, resourceVars, pending, main_result,
                   nQueries, line, forwarded, queryVars, serverVars>>

chat_loop_except ==
    /\ driver = "main" /\ pc = "pq_raise"
    /\ output' = <<"\nError: ", raised>>
    /\ pc' = "chat_input"
    /\ UNCHANGED <<driver, argv, resourceVars, pending, main_result,
                   loop_exit, nQueries, line, forwarded, queryVars, serverVars>>

LoopPcs ==
    {"chat_input", "pq_start", "pq_list", "pq_model1", "pq_tools", "pq_model2",
     "pq_return", "pq_raise"}

\* A KeyboardInterrupt or a task cancellation is no Exception: the handler of
\* chat_loop does not catch it and it leaves the loop.
chat_loop_interrupt ==
    /\ driver = "main" /\ pc \in LoopPcs
    /\ pending' = "KeyboardInterrupt"
    /\ loop_exit' = "raise"
    /\ pc' = "finally"
    /\ UNCHANGED <<driver, argv, resourceVars, main_result, nQueries, line,
                   forwarded, output, queryVars, serverVars>>

\* variant: cleanup after the try block instead of in a finally clause
main_cleanup_after_try ==
    /\ driver = "main" /\ pc = "finally"
    /\ IF pending = NoException
       THEN cleanup
       ELSE UNCHANGED resourceVars
    /\ pc' = "done"
    /\ main_result' = IF pending = NoException THEN "returned" ELSE "raised"
    /\ UNCHANGED <<driver, argv, pending, loop_exit, nQueries, line, forwarded,
                   output, queryVars, serverVars>>

main_finally ==
    /\ driver = "main" /\ pc = "finally"
    /\ cleanup
    /\ pc' = "done"
    /\ main_result' = IF pending = NoException THEN "returned" ELSE "raised"
    /\ UNCHANGED <<driver, argv, pending, loop_exit, nQueries, line, forwarded,
                   output, queryVars, serverVars>>

\* ------------------------------------------------------- process_query
shellVars ==
    <<driver, argv, resourceVars, pending, main_result, loop_exit, nQueries,
      line, output>>

process_query_start ==
    /\ pc = "pq_start"
    /\ messages' = seed_messages(query)
    /\ forwarded' = forwarded + 1
    /\ available_tools' = <<>>
    /\ tool_calls' = <<>>
    /\ idx' = 0
    /\ tool_results' = <<>>
    /\ final_text' = <<>>
    /\ first_text' = None
    /\ result' = <<>>
    /\ raised' = NoException
    /\ calls' = <<>>
    /\ req1' = None
    /\ req2' = None
    /\ pc' = "pq_list"
    /\ UNCHANGED <<shellVars, query, serverVars>>

\* variant: a missing session is not noticed by the fetch
list_tools_outcomes_unchecked(sess) ==
    { [raised |-> NoException, sent |-> TRUE, tools |-> t] : t \in ToolLists }
    \cup { [raised |-> "McpError", sent |-> TRUE, tools |-> <<>>] }

\* self.session.list_tools(): an attribute access on None raises
\* AttributeError before any request is sent; an established session answers
\* with a tool list or fails.
list_tools_outcomes(sess) ==
    IF sess = NoSession
    THEN { [raised |-> "AttributeError", sent |-> FALSE, tools |-> <<>>] }
    ELSE { [raised |-> NoException, sent |-> TRUE, tools |-> t] : t \in ToolLists }
         \cup { [raised |-> "McpError", sent |-> TRUE, tools |-> <<>>] }

process_query_list_tools ==
    /\ pc = "pq_list"
    /\ \E o \in list_tools_outcomes(session) :
         /\ calls' = IF o.sent
                     THEN Append(calls, Call("list_tools", 0, o.raised = NoException))
                     ELSE calls
         /\ IF o.raised = NoException
            THEN /\ available_tools' = schemas(o.tools)
                 /\ pc' = "pq_model1"
                 /\ UNCHANGED raised
            ELSE /\ raised' = o.raised
                 /\ pc' = "pq_raise"
                 /\ UNCHANGED available_tools
    /\ UNCHANGED <<shellVars, forwarded, query, messages, tool_calls, idx,
                   tool_results, final_text, first_text, result, req1, req2,
                   serverVars>>

\* final_text.append(content) if content
append_text(text, content) ==
    IF truthy_str(content) THEN Append(text, content[1]) ELSE text

process_query_first_call ==
    /\ pc = "pq_model1"
    /\ req1' = Some(first_request(messages, available_tools))
    /\ \/ /\ calls' = Append(calls, Call("model", 1, FALSE))
          /\ raised' = "APIError"
          /\ pc' = "pq_raise"
          /\ UNCHANGED <<tool_calls, idx, final_text, first_text, result>>
       \/ \E response \in FirstResponses :
            /\ calls' = Append(calls, Call("model", 1, TRUE))
            /\ first_text' = response.content
            /\ final_text' = append_text(final_text, response.content)
            /\ tool_calls' = response.tool_calls
            /\ IF response.tool_calls # <<>>
               THEN /\ pc' = "pq_tools"
                    /\ idx' = 1
                    /\ UNCHANGED result
               ELSE /\ pc' = "pq_return"
                    /\ result' = join(final_text')
                    /\ UNCHANGED idx
            /\ UNCHANGED raised
    /\ UNCHANGED <<shellVars, forwarded, query, messages, available_tools,
                   tool_results, req2, serverVars>>

\* variant: a failed request is skipped and the loop goes on
process_query_tool_call_skip_failed ==
    /\ pc = "pq_tools"
    /\ LET tool_call == tool_calls[idx]
           tool_args == json_loads(tool_call.function.arguments)
       IN  /\ \/ /\ ~tool_args.ok
                 /\ UNCHANGED <<calls, tool_results, messages>>
              \/ /\ tool_args.ok
                 /\ calls' = Append(calls, Call("call_tool", tool_call.id, FALSE))
                 /\ UNCHANGED <<tool_results, messages>>
              \/ /\ tool_args.ok
                 /\ \E content \in ResultContents :
                      /\ calls' = Append(calls, Call("call_tool", tool_call.id, TRUE))
                      /\ tool_results' =
                           Append(tool_results,
                                  [tool |-> tool_call.function.name,
                                   result |-> content])
                      /\ messages' = messages \o
                           << assistant_message(tool_call),
                              tool_message(tool_call, content) >>
           /\ idx' = idx + 1
           /\ pc' = IF idx = Len(tool_calls) THEN "pq_model2" ELSE "pq_tools"
    /\ UNCHANGED <<shellVars, forwarded, query, available_tools, tool_calls,
                   final_text, first_text, result, raised, req1, req2,
                   serverVars>>

\* one iteration of the loop over message.tool_calls
process_query_tool_call ==
    /\ pc = "pq_tools"
    /\ LET tool_call == tool_calls[idx]
           tool_args == json_loads(tool_call.function.arguments)
       IN  IF ~tool_args.ok
           THEN /\ raised' = "JSONDecodeError"
                /\ pc' = "pq_raise"
                /\ UNCHANGED <<calls, tool_results, messages, idx>>
           ELSE \/ /\ calls' = Append(calls, Call("call_tool", tool_call.id, FALSE))
                   /\ raised' = "McpError"
                   /\ pc' = "pq_raise"
                   /\ UNCHANGED <<tool_results, messages, idx>>
                \/ \E content \in ResultContents :
                        /\ calls' = Append(calls, Call("call_tool", tool_call.id, TRUE))
                        /\ tool_results' =
                             Append(tool_results,
                                    [tool |-> tool_call.function.name,
                                     result |-> content])
                        /\ messages' = messages \o
                             << assistant_message(tool_call),
                                tool_message(tool_call, content) >>
                        /\ idx' = idx + 1
                        /\ pc' = IF idx = Len(tool_calls) THEN "pq_model2"
                                 ELSE "pq_tools"
                        /\ UNCHANGED raised
    /\ UNCHANGED <<shellVars, forwarded, query, available_tools, tool_calls,
                   final_text, first_text, result, req1, req2, serverVars>>

process_query_followup ==
    /\ pc = "pq_model2"
    /\ req2' = Some(followup_request(messages))
    /\ \/ /\ calls' = Append(calls, Call("model", 2, FALSE))
          /\ raised' = "APIError"
          /\ pc' = "pq_raise"
          /\ UNCHANGED <<final_text, result>>
       \/ \E content \in FollowupContents :
            /\ calls' = Append(calls, Call("model", 2, TRUE))
            /\ final_text' = append_text(final_text, content)
            /\ result' = join(final_text')
            /\ pc' = "pq_return"
            /\ UNCHANGED raised
    /\ UNCHANGED <<shellVars, forwarded, query, messages, available_tools,
                   tool_calls, idx, tool_results, first_text, req1, serverVars>>

\* ------------------------------------------------------- a caller of the methods
api_connect ==
    /\ driver = "api" /\ pc = "api_idle"
    /\ session = NoSession /\ exit_stack = <<>>
    /\ \E path \in Paths, fail_at \in ConnectFailures :
         LET r == connect_to_server(path, fail_at, session, exit_stack)
         IN  /\ session' = r.session
             /\ exit_stack' = r.exit_stack
             /\ acquired' = acquired \cup Range(r.exit_stack)
             /\ output' = <<"connect_to_server: ", r.raised>>
    /\ UNCHANGED <<driver, pc, argv, cleanups, pending, main_result, loop_exit,
                   nQueries, line, forwarded, queryVars, serverVars>>

api_process_query ==
    /\ driver = "api" /\ pc = "api_idle"
    /\ nQueries < MaxQueries
    /\ \E q \in Lines :
         /\ query' = q
         /\ line' = q
    /\ forwarded' = 0
    /\ nQueries' = nQueries + 1
    /\ pc' = "pq_start"
    /\ UNCHANGED <<driver, argv, resourceVars, pending, main_result, loop_exit,
                   output, messages, available_tools, tool_calls, idx,
                   tool_results, final_text, first_text, result, raised, calls,
                   req1, req2, serverVars>>

api_return ==
    /\ driver = "api" /\ pc = "pq_return"
    /\ output' = <<"process_query: ">> \o result
    /\ pc' = "api_idle"
    /\ UNCHANGED <<driver, argv, resourceVars, pending, main_result,
                   loop_exit, nQueries, line, forwarded, queryVars, serverVars>>

api_raise ==
    /\ driver = "api" /\ pc = "pq_raise"
    /\ output' = <<"process_query: ", raised>>
    /\ pc' = "api_idle"
    /\ UNCHANGED <<driver, argv, resourceVars, pending, main_result,
                   loop_exit, nQueries, line, forwarded, queryVars, serverVars>>

api_cleanup ==
    /\ driver = "api" /\ pc = "api_idle"
    /\ cleanup
    /\ pc' = "api_closed"
    /\ UNCHANGED <<driver, argv, pending, main_result, loop_exit, nQueries,
                   line, forwarded, output, queryVars, serverVars>>

\* ------------------------------------------------------- specifications
InitQuery ==
    /\ query = <<>>
    /\ messages = <<>>
    /\ available_tools = <<>>
    /\ tool_calls = <<>>
    /\ idx = 0
    /\ tool_results = <<>>
    /\ final_text = <<>>
    /\ first_text = None
    /\ result = <<>>
    /\ raised = NoException
    /\ calls = <<>>
    /\ req1 = None
    /\ req2 = None

\* MCPClient.__init__: no session, an empty exit stack
InitClient ==
    /\ session = NoSession
    /\ exit_stack = <<>>
    /\ acquired = {}
    /\ cleanups = 0
    /\ pending = NoException
    /\ main_result = "running"
    /\ loop_exit = "none"
    /\ nQueries = 0
    /\ line = <<>>
    /\ forwarded = 0
    /\ output = <<>>
    /\ InitQuery

InitServersIdle ==
    /\ w_pc = "idle"
    /\ w_tool = "none"
    /\ w_http = <<>>
    /\ w_requests = 0
    /\ w_data = <<>>
    /\ w_result = [kind |-> "none", value |-> <<>>]
    /\ m_call = <<>>
    /\ m_eval = FALSE
    /\ m_result = [kind |-> "none", value |-> <<>>]

\* The program: python client.py [path]
Init ==
    /\ driver = "main"
    /\ pc = "main"
    /\ argv \in Argvs
    /\ InitClient
    /\ InitServersIdle

Next ==
    \/ main_start
    \/ main_connect
    \/ chat_loop_input
    \/ chat_loop_eof
    \/ process_query_start
    \/ process_query_list_tools
    \/ process_query_first_call
    \/ process_query_tool_call
    \/ process_query_followup
    \/ chat_loop_print
    \/ chat_loop_except
    \/ chat_loop_interrupt
    \/ main_finally

Spec == Init /\ [][Next]_vars

\* A caller that constructs an MCPClient and calls its methods itself.
InitApi ==
    /\ driver = "api"
    /\ pc = "api_idle"
    /\ argv = <<"client.py">>
    /\ InitClient
    /\ InitServersIdle

NextApi ==
    \/ api_connect
    \/ api_process_query
    \/ process_query_start
    \/ process_query_list_tools
    \/ process_query_first_call
    \/ process_query_tool_call
    \/ process_query_followup
    \/ api_return
    \/ api_raise
    \/ api_cleanup

SpecApi == InitApi /\ [][NextApi]_vars

\* ------------------------------------------------------- JSON values in Python
\* A decoded JSON value is a record tagged with its Python type.
JNull == [t |-> "null"]
JNum(n) == [t |-> "num", v |-> n]
JStr(str) == [t |-> "str", v |-> str]
JList(seq) == [t |-> "list", v |-> seq]
JDict(f) == [t |-> "dict", v |-> f]
EmptyDict == JDict(<<>>)

\* bool(value)
truthy(j) ==
    CASE j.t = "null" -> FALSE
      [] j.t = "num" -> j.v # 0
      [] j.t = "str" -> j.v # ""
      [] j.t = "list" -> j.v # <<>>
      [] j.t = "dict" -> DOMAIN j.v # {}

\* the outcome of evaluating an expression: a value, or an exception raised
Ok(v) == [exc |-> NoException, val |-> v]
Err(e) == [exc |-> e, val |-> JNull]

\* value[key] with a str key
getitem(j, key) ==
    IF j.t = "dict"
    THEN IF key \in DOMAIN j.v THEN Ok(j.v[key]) ELSE Err("KeyError")
    ELSE Err("TypeError")

\* key in value, with a str key (the strings of the model are whole tokens)
contains(j, key) ==
    CASE j.t = "dict" -> Ok(key \in DOMAIN j.v)
      [] j.t = "list" -> Ok(\E i \in 1..Len(j.v) : j.v[i].t = "str" /\ j.v[i].v = key)
      [] j.t = "str" -> Ok(j.v = key)
      [] OTHER -> Err("TypeError")

\* str(value) inside an f-string
render(j) ==
    CASE j.t = "str" -> j.v
      [] j.t = "null" -> "None"
      [] j.t = "num" -> ToString(j.v)

\* how a tool function ends
Return(fragments) == [kind |-> "return", value |-> fragments]
Raise(e) == [kind |-> "raise", value |-> <<e>>]

\* separator.join(strings), each string a sequence of fragments
RECURSIVE join_with(_, _)
join_with(sep, strings) ==
    IF strings = <<>> THEN <<>>
    ELSE IF Len(strings) = 1 THEN strings[1]
    ELSE strings[1] \o <<sep>> \o join_with(sep, Tail(strings))

\* the first element of a sequence of outcomes that raised, if any
FirstRaise(rs) ==
    LET bad == { i \in 1..Len(rs) : rs[i].kind = "raise" }
    IN  IF bad = {} THEN 0 ELSE CHOOSE i \in bad : \A j \in bad : i <= j

\* ------------------------------------------------------- weather.py
\* Number of forecast periods shown.
ForecastPeriods == 5

AlertsFallback == <<"Unable to fetch alerts or no alerts found.">>
NoAlerts == <<"No active alerts for this state.">>
PointsFallback == <<"Unable to fetch forecast data for this location.">>
ForecastFallback == <<"Unable to fetch detailed forecast.">>

Fallbacks == {AlertsFallback, NoAlerts, PointsFallback, ForecastFallback}

\* What an outbound GET ends in: a transport error, or a response with a
\* status and a body that decodes to a JSON value or does not decode.
Feature(props) == JDict([properties |-> props])

AlertProps == JDict([event |-> JStr("Flood"), severity |-> JNull])

Period ==
    JDict([name |-> JStr("Tonight"), temperature |-> JNum(50),
           temperatureUnit |-> JStr("F"), windSpeed |-> JStr("5 mph"),
           windDirection |-> JStr("N"), detailedForecast |-> JStr("Clear")])

Periods(n) == JList([i \in 1..n |-> Period])

Bodies ==
    { JNull, EmptyDict, JList(<<>>), JList(<<JStr("x")>>),
      JDict([title |-> JStr("x")]),
      JDict([features |-> JList(<<>>)]),
      JDict([features |-> JNull]),
      JDict([features |-> JList(<<Feature(AlertProps)>>)]),
      JDict([features |-> JList(<<Feature(AlertProps), Feature(EmptyDict)>>)]),
      JDict([features |-> JList(<<Feature(AlertProps), EmptyDict>>)]),
      JDict([features |-> JList(<<Feature(JNull)>>)]),
      JDict([properties |-> JDict([forecast |-> JStr("forecast_url")])]),
      JDict([properties |-> JDict([forecast |-> JNull])]),
      JDict([properties |-> EmptyDict]),
      JDict([properties |-> JNull]),
      JDict([properties |-> JDict([forecast |-> JStr("forecast_url"),
                                   periods |-> Periods(2)])]),
      JDict([properties |-> JDict([periods |-> Periods(ForecastPeriods + 1)])]),
      JDict([properties |-> JDict([periods |-> JList(<<>>)])]),
      JDict([properties |-> JDict([periods |-> JNull])]),
      JDict([properties |-> JDict([periods |->
                JList(<<Period, JDict([name |-> JStr("Later")])>>)])]) }

HttpOutcomes ==
    { [kind |-> "transport_error", status |-> 0, body |-> None] }
    \cup { [kind |-> "response", status |-> st, body |-> None] : st \in {200, 404, 500} }
    \cup { [kind |-> "response", status |-> 200, body |-> Some(b)] : b \in Bodies }
    \cup { [kind |-> "response", status |-> 500, body |-> Some(EmptyDict)] }

\* make_nws_request(url) when the GET ends in outcome o: every exception of
\* the request, of raise_for_status and of the decoding gives None
make_nws_request(url, o) ==
    IF url.t # "str" THEN JNull
    ELSE IF o.kind = "transport_error" THEN JNull
    ELSE IF ~(o.status >= 200 /\ o.status < 300) THEN JNull
    ELSE IF o.body = None THEN JNull
    ELSE o.body[1]

prop(props, key, default) ==
    IF key \in DOMAIN props.v THEN render(props.v[key]) ELSE default

format_alert(feature) ==
    LET p == getitem(feature, "properties")
    IN  IF p.exc # NoException THEN Raise(p.exc)
        ELSE IF p.val.t # "dict" THEN Raise("AttributeError")
        ELSE Return(<< "\nEvent: ", prop(p.val, "event", "Unknown"),
                       "\nArea: ", prop(p.val, "areaDesc", "Unknown"),
                       "\nSeverity: ", prop(p.val, "severity", "Unknown"),
                       "\nDescription: ",
                       prop(p.val, "description", "No description available"),
                       "\nInstructions: ",
                       prop(p.val, "instruction", "No specific instructions provided"),
                       "\n" >>)

\* the body of get_alerts after data = make_nws_request(url)
get_alerts(data) ==
    IF ~truthy(data) THEN Return(AlertsFallback)
    ELSE LET has == contains(data, "features")
         IN  IF has.exc # NoException THEN Raise(has.exc)
             ELSE IF ~has.val THEN Return(AlertsFallback)
             ELSE LET fs == getitem(data, "features")
                  IN  IF fs.exc # NoException THEN Raise(fs.exc)
                      ELSE IF ~truthy(fs.val) THEN Return(NoAlerts)
                      ELSE IF fs.val.t # "list" THEN Raise("TypeError")
                      ELSE LET alerts == [i \in 1..Len(fs.val.v) |->
                                             format_alert(fs.val.v[i])]
                               bad == FirstRaise(alerts)
                           IN  IF bad # 0 THEN alerts[bad]
                               ELSE Return(join_with("\n---\n",
                                      [i \in 1..Len(alerts) |-> alerts[i].value]))

\* points_data["properties"]["forecast"]
forecast_url(points_data) ==
    LET p == getitem(points_data, "properties")
    IN  IF p.exc # NoException THEN p ELSE getitem(p.val, "forecast")

PeriodKeys ==
    <<"name", "temperature", "temperatureUnit", "windSpeed", "windDirection",
      "detailedForecast">>

format_period(period) ==
    IF period.t # "dict" THEN Raise("TypeError")
    ELSE IF \E i \in 1..Len(PeriodKeys) : PeriodKeys[i] \notin DOMAIN period.v
    THEN Raise("KeyError")
    ELSE Return(<< "\n", render(period.v["name"]), ":\nTemperature: ",
                   render(period.v["temperature"]), "°",
                   render(period.v["temperatureUnit"]), "\nWind: ",
                   render(period.v["windSpeed"]), " ",
                   render(period.v["windDirection"]), "\nForecast: ",
                   render(period.v["detailedForecast"]), "\n" >>)

\* the body of get_forecast after forecast_data = make_nws_request(forecast_url)
format_forecast(forecast_data) ==
    IF ~truthy(forecast_data) THEN Return(ForecastFallback)
    ELSE LET p == getitem(forecast_data, "properties")
             periods == IF p.exc # NoException THEN p ELSE getitem(p.val, "periods")
         IN  IF periods.exc # NoException THEN Raise(periods.exc)
             ELSE IF periods.val.t # "list" THEN Raise("TypeError")
             ELSE LET shown == SubSeq(periods.val.v, 1,
                                      IF Len(periods.val.v) < ForecastPeriods
                                      THEN Len(periods.val.v) ELSE ForecastPeriods)
                      forecasts == [i \in 1..Len(shown) |-> format_period(shown[i])]
                      bad == FirstRaise(forecasts)
                  IN  IF bad # 0 THEN forecasts[bad]
                      ELSE Return(join_with("\n---\n",
                             [i \in 1..Len(forecasts) |-> forecasts[i].value]))

get_alerts_call ==
    /\ w_pc = "start" /\ w_tool = "get_alerts"
    /\ w_requests' = w_requests + 1
    /\ w_data' = make_nws_request(JStr("alerts_url"), w_http[1])
    /\ w_result' = get_alerts(w_data')
    /\ w_pc' = "done"
    /\ UNCHANGED <<w_tool, w_http, clientVars, mathVars>>

get_forecast_points ==
    /\ w_pc = "start" /\ w_tool = "get_forecast"
    /\ w_requests' = w_requests + 1
    /\ w_data' = make_nws_request(JStr("points_url"), w_http[1])
    /\ IF ~truthy(w_data')
       THEN /\ w_result' = Return(PointsFallback)
            /\ w_pc' = "done"
       ELSE LET url == forecast_url(w_data')
            IN  IF url.exc # NoException
                THEN /\ w_result' = Raise(url.exc)
                     /\ w_pc' = "done"
                ELSE /\ w_pc' = "forecast"
                     /\ UNCHANGED w_result
    /\ UNCHANGED <<w_tool, w_http, clientVars, mathVars>>

get_forecast_fetch ==
    /\ w_pc = "forecast"
    /\ w_requests' = w_requests + 1
    /\ w_result' =
         format_forecast(make_nws_request(forecast_url(w_data).val, w_http[2]))
    /\ w_pc' = "done"
    /\ UNCHANGED <<w_tool, w_http, w_data, clientVars, mathVars>>

\* ------------------------------------------------------- mathe_problem.py
\* Largest magnitude of a numeric argument.
MaxNum == 3
\* Largest length of an expression.
MaxExprLen == 3

Nums == (0 - MaxNum)..MaxNum

\* A float is modelled by the exact rational <<numerator, denominator>> it
\* approximates, in lowest terms with a positive denominator.
RECURSIVE gcd(_, _)
gcd(x, y) == IF y = 0 THEN x ELSE gcd(y, x % y)

abs(x) == IF x < 0 THEN 0 - x ELSE x

Rat(n, d) ==
    LET g == gcd(abs(n), abs(d))
        sign == IF d < 0 THEN 0 - 1 ELSE 1
    IN  <<sign * (n \div g), sign * (d \div g)>>

\* a / b on floats
truediv(a, b) == IF b = 0 THEN Err("ZeroDivisionError") ELSE Ok(Rat(a, b))

\* number ** 0.5 for number >= 0: the integer part of the root and whether it
\* is the exact root
sqrt(x) ==
    LET r == CHOOSE k \in 0..x : k * k <= x /\ (k + 1) * (k + 1) > x
    IN  [floor |-> r, exact |-> r * r = x]

\* how a math tool ends: a fixed message, or a formatted line whose parts are
\* the formatted values in order, the result last
Message(text) == [kind |-> "return", msg |-> text, parts |-> <<>>]
Line(parts) == [kind |-> "return", msg |-> "", parts |-> parts]
Raised(e) == [kind |-> "raise", msg |-> e, parts |-> <<>>]

DivideByZero == "Error: Cannot divide by zero!"
NegativeRoot == "Error: Cannot calculate square root of negative number!"
InvalidCharacters ==
    "Error: Expression contains invalid characters. Only numbers and +, -, *, /, (), . are allowed."
ZeroInExpression == "Error: Division by zero in expression!"
InvalidExpression == "Error: Invalid mathematical expression - "

\* variant: the division without the test of the divisor
divide_unchecked(a, b) ==
    LET quotient == truediv(a, b)
    IN  IF quotient.exc # NoException THEN Raised(quotient.exc)
        ELSE Line(<<Rat(a, 1), Rat(b, 1), quotient.val>>)

divide(a, b) ==
    IF b = 0 THEN Message(DivideByZero)
    ELSE LET quotient == truediv(a, b)
         IN  IF quotient.exc # NoException THEN Raised(quotient.exc)
             ELSE Line(<<Rat(a, 1), Rat(b, 1), quotient.val>>)

square_root(number) ==
    IF number < 0 THEN Message(NegativeRoot)
    ELSE Line(<<Rat(number, 1), sqrt(number)>>)

allowed_chars ==
    {"0", "1", "2", "3", "4", "5", "6", "7", "8", "9",
     "+", "-", "*", "/", ".", "(", ")"}

\* expression.replace(" ", "")
remove_spaces(expr) == SelectSeq(expr, LAMBDA c : c # " ")

\* What eval(clean_expr) ends in is not computed: it may give a value, raise
\* ZeroDivisionError, or raise another Exception (SyntaxError, TypeError, ...).
EvalOutcomes == {"value", "ZeroDivisionError", "SyntaxError"}

\* calculate(expression) when eval, if it is reached, ends in outcome ev;
\* evaluated tells whether eval was invoked
calculate(expression, ev) ==
    LET clean_expr == remove_spaces(expression)
    IN  IF ~(\A i \in 1..Len(clean_expr) : clean_expr[i] \in allowed_chars)
        THEN [evaluated |-> FALSE, result |-> Message(InvalidCharacters)]
        ELSE [evaluated |-> TRUE,
              result |-> CASE ev = "value" -> Line(<<expression, "eval(clean_expr)">>)
                           [] ev = "ZeroDivisionError" -> Message(ZeroInExpression)
                           [] OTHER -> Message(InvalidExpression)]

\* Characters expressions are made of.
ExprChars == {"1", "0", "/", " ", "a", "\t"}

RECURSIVE Strings(_)
Strings(n) ==
    IF n = 0 THEN {<<>>}
    ELSE Strings(n - 1) \cup
         { Append(e, c) : e \in { x \in Strings(n - 1) : Len(x) = n - 1 },
                          c \in ExprChars }

Expressions == Strings(MaxExprLen)

MathCall(tool, a, b, expr) == [tool |-> tool, a |-> a, b |-> b, expression |-> expr]

divide_call ==
    /\ m_call.tool = "none"
    /\ \E a \in Nums, b \in Nums :
         /\ m_call' = MathCall("divide", a, b, <<>>)
         /\ m_result' = divide(a, b)
    /\ m_eval' = FALSE
    /\ UNCHANGED <<clientVars, weatherVars>>

square_root_call ==
    /\ m_call.tool = "none"
    /\ \E number \in Nums :
         /\ m_call' = MathCall("square_root", number, 0, <<>>)
         /\ m_result' = square_root(number)
    /\ m_eval' = FALSE
    /\ UNCHANGED <<clientVars, weatherVars>>

calculate_call ==
    /\ m_call.tool = "none"
    /\ \E expression \in Expressions, ev \in EvalOutcomes :
         LET r == calculate(expression, ev)
         IN  /\ m_call' = MathCall("calculate", 0, 0, expression)
             /\ m_eval' = r.evaluated
             /\ m_result' = r.result
    /\ UNCHANGED <<clientVars, weatherVars>>

\* ------------------------------------------------------- the tool servers
InitClientIdle ==
    /\ driver = "none"
    /\ pc = "none"
    /\ argv = <<>>
    /\ InitClient

\* One call of a weather tool, for every outcome of its outbound requests.
InitWeather ==
    /\ InitClientIdle
    /\ w_pc = "start"
    /\ w_tool \in {"get_alerts", "get_forecast"}
    /\ w_http \in HttpOutcomes \X HttpOutcomes
    /\ w_requests = 0
    /\ w_data = JNull
    /\ w_result = [kind |-> "none", value |-> <<>>]
    /\ m_call = <<>>
    /\ m_eval = FALSE
    /\ m_result = [kind |-> "none", value |-> <<>>]

NextWeather ==
    \/ get_alerts_call
    \/ get_forecast_points
    \/ get_forecast_fetch

SpecWeather == InitWeather /\ [][NextWeather]_vars

\* One call of a math tool, for every argument.
InitMath ==
    /\ InitClientIdle
    /\ w_pc = "idle"
    /\ w_tool = "none"
    /\ w_http = <<>>
    /\ w_requests = 0
    /\ w_data = <<>>
    /\ w_result = [kind |-> "none", value |-> <<>>]
    /\ m_call = MathCall("none", 0, 0, <<>>)
    /\ m_eval = FALSE
    /\ m_result = Message("")

NextMath ==
    \/ divide_call
    \/ square_root_call
    \/ calculate_call

SpecMath == InitMath /\ [][NextMath]_vars

\* ------------------------------------------------------- helpers of the properties
IsPrefix(a, b) == Len(a) <= Len(b) /\ SubSeq(b, 1, Len(a)) = a

IsToolMessage(m) == m.role = "tool"

IsCallTool(c) == c.op = "call_tool"

IsModelCall(c) == c.op = "model"

\* the calls made, without their outcome
Shape(cs) == [i \in 1..Len(cs) |-> [op |-> cs[i].op, n |-> cs[i].n]]

Sent(op, n) == [op |-> op, n |-> n]

\* the correlation ids of the call_tool calls made so far, in order
CalledIds == LET ct == SelectSeq(calls, IsCallTool) IN [i \in 1..Len(ct) |-> ct[i].n]

RequestIds == [i \in 1..Len(tool_calls) |-> tool_calls[i].id]

\* the external calls of a query that runs to its end over the requests of
\* the first response
FullCallOrder ==
    <<Sent("list_tools", 0), Sent("model", 1)>>
    \o [i \in 1..Len(tool_calls) |-> Sent("call_tool", tool_calls[i].id)]
    \o <<Sent("model", 2)>>

QueryEnded == pc \in {"pq_return", "pq_raise"}

\* ------------------------------------------------------- C1
\* C1: when the second model call is made, the conversation it is given holds
\* exactly one tool-result message per tool-invocation request of the first
\* response, in the order of the requests, the i-th with the correlation id of
\* the i-th request and the content call_tool returned for it.
C1_ToolResultsInOrder ==
    req2 # None =>
        LET tm == SelectSeq(req2[1].messages, IsToolMessage)
        IN  /\ Len(tool_calls) >= 1
            /\ Len(tm) = Len(tool_calls)
            /\ Len(tool_results) = Len(tool_calls)
            /\ \A i \in 1..Len(tool_calls) :
                 /\ tm[i].tool_call_id = tool_calls[i].id
                 /\ tm[i].content = tool_results[i].result

C1_Witness ==
    /\ req2 # None
    /\ Len(tool_calls) = 2
    /\ tool_calls[1].id = 2
    /\ tool_results[1].result # tool_results[2].result

\* ------------------------------------------------------- C2
\* C2: when process_query raises an exception inside chat_loop, the next step
\* of the shell (unless the process is interrupted) prints the error and reads
\* the next line, with the loop not left and the session and its resources as
\* they were; and whenever the shell reads a line the session is established.
C2_SessionAtPrompt ==
    (driver = "main" /\ pc \in LoopPcs) =>
        /\ session = "ClientSession"
        /\ acquired = {"stdio_client", "ClientSession"}
        /\ loop_exit = "none"
        /\ cleanups = 0

\* C2: an Exception raised while a query is processed is printed and the shell
\* returns to the prompt with the session and the acquired resources unchanged.
C2_ErrorKeepsLoop ==
    /\ []C2_SessionAtPrompt
    /\ [][(pc = "pq_raise" /\ pending' # "KeyboardInterrupt") =>
            /\ pc' = "chat_input"
            /\ output' = <<"\nError: ", raised>>
            /\ loop_exit' = "none"
            /\ session' = session
            /\ acquired' = acquired]_vars

\* a query that returns after an earlier query of the same session failed
C2_Witness ==
    /\ pc = "pq_return"
    /\ nQueries = 2
    /\ output = <<"\nError: ", "JSONDecodeError">>
    /\ result # <<>>

\* ------------------------------------------------------- C3
\* C3 (as amended): when process_query runs while self.session is None, the
\* tool-list fetch raises AttributeError (not ConnectionError), nothing is
\* sent to the tool server, and no model call and no tool call is made.
C3_NoSessionAttributeError ==
    (session = NoSession /\ pc \in LoopPcs \ {"pq_start"}) =>
        /\ pc \in {"pq_list", "pq_raise"}
        /\ calls = <<>>
        /\ req1 = None
        /\ req2 = None
        /\ pc = "pq_raise" => raised = "AttributeError"

C3_Witness == session = NoSession /\ pc = "pq_raise" /\ raised = "AttributeError"

\* C3 as stated: the fetch fails with a ConnectionError.
C3_Original ==
    (session = NoSession /\ pc = "pq_raise") =>
        /\ raised = "ConnectionError"
        /\ calls = <<>>

\* ------------------------------------------------------- C4
\* C4: chat_loop is left by its break only on a line that is "quit" after
\* strip() and lower(), and that line is not handed to process_query; every
\* other line read is handed to process_query exactly once; the only other
\* way out of the loop is the interruption of the process.
C4_QuitOnly ==
    driver = "main" =>
        /\ loop_exit = "break" => (line \in QuitLines /\ forwarded = 0)
        /\ loop_exit = "raise" => pending = "KeyboardInterrupt"
        /\ (pc \in {"finally", "done"} /\ pending \in {NoException, "KeyboardInterrupt"})
             => loop_exit \in {"break", "raise"}
        /\ pc \in LoopPcs \ {"chat_input"} =>
             (line \in OtherLines /\ query = strip(line))
        /\ pc = "pq_start" => forwarded = 0
        /\ pc \in LoopPcs \ {"chat_input", "pq_start"} => forwarded = 1
        /\ (pc = "chat_input" /\ nQueries > 0) => forwarded = 1

C4_Witness ==
    /\ loop_exit = "break"
    /\ pc = "done"
    /\ nQueries = 2
    /\ line = <<" ", "Q", "u", "I", "T", "\n">>

\* ------------------------------------------------------- C5
\* C5: once main has created the client, cleanup has run exactly once when
\* main has ended, on every path, and no resource is left acquired; main ends
\* nowhere else than after the finally clause (or at the usage exit, before
\* the client exists).
C5_CleanupOnce ==
    driver = "main" =>
        /\ pc = "done" => (cleanups = 1 /\ acquired = {} /\ exit_stack = <<>>)
        /\ pc # "done" => cleanups = 0
        /\ pc = "exited" => (acquired = {} /\ Len(argv) < 2)
        /\ (~ENABLED Next) => pc \in {"done", "exited"}

\* connect_to_server failed after the transport was opened
C5_Witness ==
    /\ pc = "done"
    /\ pending = "RuntimeError"
    /\ cleanups = 1
    /\ main_result = "raised"

\* ------------------------------------------------------- C6
\* C6: the conversation of the first model call of every query is exactly the
\* system instruction followed by that query's text, whatever happened in the
\* queries before; within one query the conversation only grows at its end.
C6_FreshSeed ==
    (req1' # req1 /\ req1' # None) =>
        req1'[1].messages =
            << [role |-> "system",
                content |-> <<"You are a helpful assistant who can use tools when needed.">>],
               [role |-> "user", content |-> query] >>

\* C6: every query's first model call is seeded with only the system prompt and
\* that query's text, and within a query the conversation is only appended to.
C6_NoCrossQueryMemory ==
    /\ [][C6_FreshSeed]_vars
    /\ [][pc # "pq_start" => IsPrefix(messages, messages')]_vars

\* the first model call of a second query, after a query that used tools
C6_Witness ==
    /\ nQueries = 2
    /\ pc = "pq_tools"
    /\ req1 # None
    /\ query = <<"h", "i">>
    /\ output = <<"\n", "text", "\n", "more">>

\* ------------------------------------------------------- C9
C9_Order ==
    /\ IsPrefix(Shape(calls), FullCallOrder)
    /\ pc = "pq_model1" => calls = <<Call("list_tools", 0, TRUE)>>
    /\ pc \in {"pq_tools", "pq_model2", "pq_return"} => Len(calls) >= 2
    /\ pc = "pq_model2" => Len(calls) = 2 + Len(tool_calls)
    /\ req1 # None <=> Sent("model", 1) \in Range(Shape(calls))
    /\ req2 # None <=> Sent("model", 2) \in Range(Shape(calls))
    /\ Len(SelectSeq(calls, IsModelCall)) <= 2
    /\ req2 # None =>
          /\ req2[1].tools = None
          /\ req2[1].tool_choice = None
          /\ CalledIds = RequestIds
          /\ Len(tool_results) = Len(tool_calls)
    /\ (pc = "pq_return" /\ tool_calls = <<>>) =>
          Len(SelectSeq(calls, IsModelCall)) = 1

\* C9 (as amended): per query the external calls are list_tools, the first
\* model call, the call_tool calls in request order, the second model call.
\* The first model call carries the tool schemas and tool-choice "auto" when
\* the tool list is not empty, and neither when it is empty.  The second
\* model call is made, once and with no tools offered, if and only if the
\* first response carried at least one request and every request's arguments
\* parsed and its call_tool returned; a query makes at most two model calls,
\* and exactly one when the first response carried no request.
C9_CallOrderAmended ==
    /\ C9_Order
    /\ req1 # None =>
          IF available_tools # <<>>
          THEN /\ req1[1].tools = Some(available_tools)
               /\ req1[1].tool_choice = Some("auto")
          ELSE /\ req1[1].tools = None
               /\ req1[1].tool_choice = None
    /\ (QueryEnded /\ req1 # None) =>
          (req2 # None <=>
             (tool_calls # <<>> /\ Len(tool_results) = Len(tool_calls)))

C9_Witness ==
    /\ pc = "pq_return"
    /\ req2 # None
    /\ Len(tool_calls) = 2
    /\ Shape(calls) = FullCallOrder
    /\ req1[1].tool_choice = Some("auto")

\* C9 as stated: the first model call always carries the tool schemas and
\* tool-choice "auto", and the second model call is made if and only if the
\* first response carried at least one request.
C9_Original ==
    /\ C9_Order
    /\ req1 # None =>
          /\ req1[1].tools = Some(available_tools)
          /\ req1[1].tool_choice = Some("auto")
    /\ (QueryEnded /\ req1 # None /\ raised # "APIError") =>
          (req2 # None <=> tool_calls # <<>>)

\* ------------------------------------------------------- C10
\* the argument strings json.loads rejects
Malformed == { <<"{", "\"a\"", ":">> }

\* the first request whose arguments are malformed (one past the last if none)
FirstMalformed ==
    LET bad == { k \in 1..Len(tool_calls) :
                   tool_calls[k].function.arguments \in Malformed }
    IN  IF bad = {} THEN Len(tool_calls) + 1
        ELSE CHOOSE k \in bad : \A j \in bad : k <= j

\* the position in calls of an external call that failed (0 if none)
FailedCall ==
    LET f == { i \in 1..Len(calls) : ~calls[i].ok }
    IN  IF f = {} THEN 0 ELSE CHOOSE i \in f : \A j \in f : i <= j

\* the query failed inside the loop over the tool-invocation requests
FailedInToolLoop ==
    \/ FailedCall # 0 /\ calls[FailedCall].op = "call_tool"
    \/ /\ FirstMalformed <= Len(tool_calls)
       /\ Len(CalledIds) = FirstMalformed - 1
       /\ FailedCall = 0
       /\ pc # "pq_tools"
       /\ pending # "KeyboardInterrupt"

\* C10: nothing is retried and a failure ends the query: no request is called
\* twice and there is at most one first and one second model call; when the
\* arguments or the call_tool of the k-th request fail, the requests after it
\* are never executed, the second model call is never made, and process_query
\* returns nothing (the shell prints the error, not the first response's text).
C10_NoRetryAbort ==
    /\ \A i, j \in 1..Len(CalledIds) : CalledIds[i] = CalledIds[j] => i = j
    /\ \A n \in {1, 2} :
         Len(SelectSeq(Shape(calls), LAMBDA c : c = Sent("model", n))) <= 1
    /\ Len(CalledIds) < FirstMalformed
    /\ FirstMalformed <= Len(tool_calls) =>
         (req2 = None /\ result = <<>> /\ pc \notin {"pq_model2", "pq_return"})
    /\ FailedCall # 0 =>
         (FailedCall = Len(calls) /\ result = <<>> /\ raised # NoException)
    /\ FailedInToolLoop =>
         /\ IsPrefix(CalledIds, RequestIds)
         /\ Len(tool_results) < Len(tool_calls)
         /\ req2 = None
         /\ Sent("model", 2) \notin Range(Shape(calls))
         /\ result = <<>>
         /\ pc \in {"pq_raise", "chat_input", "pq_start", "finally", "done"}
         /\ raised \in {"JSONDecodeError", "McpError"}
         /\ (pc = "chat_input" /\ driver = "main") =>
               output \in {<<"\nError: ", raised>>, <<"\nError: ", "EOFError">>}

\* the first of two requests failed after a first response with text
C10_Witness ==
    /\ pc = "chat_input"
    /\ FailedInToolLoop
    /\ FailedCall = 3
    /\ Len(tool_calls) = 2
    /\ raised = "McpError"
    /\ first_text = Some("text")
    /\ output = <<"\nError: ", "McpError">>

\* ------------------------------------------------------- C7
\* C7: get_alerts and get_forecast never raise, whatever the outbound HTTP
\* calls end in; and get_forecast makes its second call only if the first
\* returned data.
C7_NeverRaises ==
    /\ w_result.kind # "raise"
    /\ w_requests = 2 => truthy(w_data)

\* ------------------------------------------------------- C8
\* C8: no math tool raises; divide(a, 0) returns the division-by-zero message
\* and divide(a, b) for b # 0 a line ending in the quotient a/b;
\* square_root(x) for x < 0 returns the negative-input message; calculate on an
\* expression with a character that is not a space and not among the digits
\* and + - * / . ( ) returns the invalid-characters message without invoking
\* the evaluator.
HasInvalidCharacter(expr) ==
    \E i \in 1..Len(expr) : expr[i] \in {"a", "\t"}

====
